---- MODULE Spec2Model ----
(***************************************************************************)
(* Model of patch_remove_pits.py: the Game Genie decoder, the address to   *)
(* file-offset mapping, the context-checked patches and the run of main.   *)
(* Bytes are integers 0..255.  A Python bytes object is held run-length    *)
(* encoded: a sequence of runs [end, b], the bytes from the previous run's  *)
(* end offset up to but excluding offset end all being b; no run is empty  *)
(* and no two adjacent runs hold the same byte, so that equal byte strings *)
(* have equal encodings.  Byte tables of the source are plain sequences.   *)
(* A Python str is a sequence of one-character strings.                    *)
(***************************************************************************)
EXTENDS Integers, Sequences, FiniteSets, TLC

VARIABLES
    rom,              \* the bytes of the input file (main: f.read())
    data,             \* main's working image
    pc,               \* main's position
    patches_applied,  \* main's counter
    patches_failed,   \* main's counter
    output,           \* the output file: whether it was written, and its bytes
    exit_code,        \* <<n>> once the process has exited with status n, else <<>>
    last_op,          \* the latest patch or code step of main: what it compared
                      \* and wrote (not recorded in reordered runs)
    done,             \* the steps taken so far (reordered runs only)
    code,             \* decode_game_genie's argument
    decoded,          \* decode_game_genie's outcome
    cpu_addr,         \* cpu_to_file's argument
    file_offset       \* cpu_to_file's outcome

vars == <<rom, data, pc, patches_applied, patches_failed, output, exit_code,
          last_op, done, code, decoded, cpu_addr, file_offset>>

mainVars == <<rom, data, pc, patches_applied, patches_failed, output, exit_code,
              last_op, done>>
decodeVars == <<code, decoded>>
offsetVars == <<cpu_addr, file_offset>>

(***************************************************************************)
(* Bounds of the model.                                                    *)
(***************************************************************************)
\* A mismatching context window differs from the expected bytes at one
\* position, up to MaxFlip bytes away from the window's first or last byte.
MaxFlip == 1
\* The longest code handed to decode_game_genie.
MaxCodeLen == 7
\* How far outside $8000-$FFFF the addresses handed to cpu_to_file reach.
AddrMargin == 64

(***************************************************************************)
(* Program constants.                                                      *)
(***************************************************************************)
ROM_SIZE == 40976
PRG_BASE == 32768
PRG_TOP == 65535
HEADER_SIZE == 16
NOP == 234
P1_CTX == 12681
P1_END == 12746
P1_LEN == 65
P2_CTX == 14237
P2_START == 14239
P2_END == 14242
P3_CTX == 24281
P3_OFFSET == 24287
P3_OLD == 249
P3_NEW == 244
P4_CTX == 16635
P4_END == 16648

NES_MAGIC == <<78, 69, 83, 26>>

GG_LETTERS == <<"A", "P", "Z", "L", "G", "I", "T", "Y",
                "E", "O", "X", "U", "K", "S", "V", "N">>

(***************************************************************************)
(* Python primitives.                                                      *)
(***************************************************************************)
Min(a, b) == IF a < b THEN a ELSE b
Max(a, b) == IF a > b THEN a ELSE b

\* A slice bound: negative bounds count from the end, and both ends clamp.
SliceBound(i, n) == IF i < 0 THEN Max(i + n, 0) ELSE Min(i, n)

\* len(d)
Size(d) == IF d = <<>> THEN 0 ELSE d[Len(d)].end

\* The offset at which run i of d starts.
RunStart(d, i) == IF i = 1 THEN 0 ELSE d[i - 1].end

\* bytes([b] * n): a negative count gives the empty string.
Repeat(b, n) == IF n <= 0 THEN <<>> ELSE <<[end |-> n, b |-> b]>>

\* e, as it lies k bytes further on.
Shift(e, k) == [i \in 1..Len(e) |-> [end |-> e[i].end + k, b |-> e[i].b]]

\* d + e
Cat(d, e) ==
    IF d = <<>> THEN e
    ELSE IF e = <<>> THEN d
    ELSE IF d[Len(d)].b = e[1].b
         THEN SubSeq(d, 1, Len(d) - 1) \o Shift(e, Size(d))
         ELSE d \o Shift(e, Size(d))

\* bytes([...]) of a byte table: a run ends where the next byte differs.
Bytes(s) ==
    LET EndsRun(i) == i = Len(s) \/ s[i] # s[i + 1]
        ends == SelectSeq([i \in 1..Len(s) |-> i], EndsRun)
    IN  [j \in 1..Len(ends) |-> [end |-> ends[j], b |-> s[ends[j]]]]

\* d[o], for 0 <= o < len(d)
ByteAt(d, o) == d[CHOOSE i \in 1..Len(d) : RunStart(d, i) <= o /\ o < d[i].end].b

\* The byte table of a bytes object.
Table(d) == [i \in 1..Size(d) |-> ByteAt(d, i - 1)]

\* The first k bytes of d.
Prefix(d, k) ==
    LET m == Cardinality({i \in 1..Len(d) : RunStart(d, i) < k})
    IN  [i \in 1..m |-> [end |-> Min(d[i].end, k), b |-> d[i].b]]

\* d without its first k bytes.
Drop(d, k) ==
    IF k <= 0 THEN d
    ELSE LET j == Cardinality({i \in 1..Len(d) : d[i].end <= k})
         IN  [i \in 1..(Len(d) - j) |-> [end |-> d[i + j].end - k, b |-> d[i + j].b]]

\* d[lo:hi]
Slice(d, lo, hi) ==
    LET l == SliceBound(lo, Size(d))
        h == SliceBound(hi, Size(d))
    IN  Prefix(Drop(d, l), h - l)

\* d[lo:]
SliceFrom(d, lo) == Drop(d, SliceBound(lo, Size(d)))

\* d[:lo] + bytes(s) + d[hi:]
Splice(d, lo, s, hi) == Cat(Cat(Slice(d, 0, lo), Bytes(s)), SliceFrom(d, hi))

RECURSIVE BitAnd(_, _)
BitAnd(a, b) ==
    IF a = 0 \/ b = 0 THEN 0
    ELSE (IF a % 2 = 1 /\ b % 2 = 1 THEN 1 ELSE 0) + 2 * BitAnd(a \div 2, b \div 2)

RECURSIVE BitOr(_, _)
BitOr(a, b) ==
    IF a = 0 THEN b
    ELSE IF b = 0 THEN a
    ELSE (IF a % 2 = 1 \/ b % 2 = 1 THEN 1 ELSE 0) + 2 * BitOr(a \div 2, b \div 2)

RECURSIVE Shl(_, _)
Shl(a, k) == IF k = 0 THEN a ELSE Shl(2 * a, k - 1)

LOWER == <<"a", "b", "c", "d", "e", "f", "g", "h", "i", "j", "k", "l", "m",
           "n", "o", "p", "q", "r", "s", "t", "u", "v", "w", "x", "y", "z">>
UPPER == <<"A", "B", "C", "D", "E", "F", "G", "H", "I", "J", "K", "L", "M",
           "N", "O", "P", "Q", "R", "S", "T", "U", "V", "W", "X", "Y", "Z">>

\* The character U+00DF (LATIN SMALL LETTER SHARP S), whose upper case is "SS".
SHARP_S == "sharp-s"

\* str.upper() of one character: a sequence, since it may be longer than one.
CharUpper(ch) ==
    IF ch = SHARP_S THEN <<"S", "S">>
    ELSE IF \E i \in 1..Len(LOWER) : LOWER[i] = ch
         THEN <<UPPER[CHOOSE i \in 1..Len(LOWER) : LOWER[i] = ch]>>
         ELSE <<ch>>

\* code.upper()
RECURSIVE upper(_)
upper(s) == IF s = <<>> THEN <<>> ELSE CharUpper(Head(s)) \o upper(Tail(s))

\* GG_LETTERS.find(ch): the first index of ch, or -1.
Find(ch) ==
    IF \E i \in 1..Len(GG_LETTERS) : GG_LETTERS[i] = ch
    THEN (CHOOSE i \in 1..Len(GG_LETTERS) :
              /\ GG_LETTERS[i] = ch
              /\ \A j \in 1..(i - 1) : GG_LETTERS[j] # ch) - 1
    ELSE -1

(***************************************************************************)
(* decode_game_genie, cpu_to_file, apply_game_genie.                       *)
(***************************************************************************)
ValueError == [raised |-> TRUE, address |-> 0, value |-> 0]

\* Mutant: n1 and n2 trade places in the address's bits 4-7.
GGAddressSwapped(n) ==
    BitOr(BitOr(BitOr(BitOr(BitOr(BitOr(BitOr(PRG_BASE,
        Shl(BitAnd(n[4], 7), 12)),
        Shl(BitAnd(n[6], 7), 8)),
        Shl(BitAnd(n[5], 8), 8)),
        Shl(BitAnd(n[2], 7), 4)),
        Shl(BitAnd(n[3], 8), 4)),
        BitAnd(n[5], 7)),
        BitAnd(n[4], 8))

\* The address formula, n being the six indexes n[0]..n[5] as n[1]..n[6].
GGAddress(n) ==
    BitOr(BitOr(BitOr(BitOr(BitOr(BitOr(BitOr(PRG_BASE,
        Shl(BitAnd(n[4], 7), 12)),
        Shl(BitAnd(n[6], 7), 8)),
        Shl(BitAnd(n[5], 8), 8)),
        Shl(BitAnd(n[3], 7), 4)),
        Shl(BitAnd(n[2], 8), 4)),
        BitAnd(n[5], 7)),
        BitAnd(n[4], 8))

GGValue(n) ==
    BitOr(BitOr(BitOr(Shl(BitAnd(n[2], 7), 4),
                      Shl(BitAnd(n[1], 8), 4)),
                BitAnd(n[1], 7)),
          BitAnd(n[6], 8))

\* Mutant: the decoder works on its argument as supplied.
NormaliseAsSupplied(c) == c

\* What the decoder works on: its argument, upper-cased.
Normalise(c) == upper(c)

decode_game_genie(c) ==
    LET u == Normalise(c) IN
    IF Len(u) # 6 THEN ValueError
    ELSE LET n == [i \in 1..6 |-> Find(u[i])] IN
         IF \E i \in 1..6 : n[i] < 0 THEN ValueError
         ELSE [raised |-> FALSE, address |-> GGAddress(n), value |-> GGValue(n)]

\* Mutant: the 16-byte header is left out of the offset.
cpu_to_fileNoHeader(addr) == addr - PRG_BASE

cpu_to_file(addr) == addr - PRG_BASE + HEADER_SIZE

\* apply_game_genie's result for a code that decodes.
apply_game_genie(d, c) ==
    LET dec == decode_game_genie(c)
        off == cpu_to_file(dec.address)
    IN  Splice(d, off, <<dec.value>>, off + 1)

(***************************************************************************)
(* verify_rom, apply_patch, verify_context.                                *)
(***************************************************************************)
\* Mutant: the bank counts are not checked.
verify_romNoBanks(d) ==
    /\ Size(d) = ROM_SIZE
    /\ Table(Slice(d, 0, 4)) = NES_MAGIC

verify_rom(d) ==
    /\ Size(d) = ROM_SIZE
    /\ Table(Slice(d, 0, 4)) = NES_MAGIC
    /\ ByteAt(d, 4) = 2
    /\ ByteAt(d, 5) = 1

apply_patch(d, offset, old_byte, new_byte) ==
    IF ByteAt(d, offset) # old_byte
    THEN [data |-> d, ok |-> FALSE]
    ELSE [data |-> Splice(d, offset, <<new_byte>>, offset + 1), ok |-> TRUE]

\* Mutant: only the window's first byte is compared.
verify_contextFirstByte(d, offset, expected_bytes) ==
    ByteAt(d, offset) = expected_bytes[1]

verify_context(d, offset, expected_bytes) ==
    Table(Slice(d, offset, offset + Len(expected_bytes))) = expected_bytes

\* The offsets verify_context compares: [offset, offset + len(expected_bytes)).
Compared(offset, expected_bytes) == <<offset, offset + Len(expected_bytes)>>

(***************************************************************************)
(* The four patches of main.  Each gives the image after the patch,        *)
(* whether it was applied, the range compared and the range written.       *)
(***************************************************************************)
NoRange == <<0, 0>>

Skipped(d, cmp) == [data |-> d, applied |-> FALSE, checked |-> cmp, wrote |-> NoRange]

P1_EXPECTED == <<165, 181, 201, 2, 48, 59, 162, 1>>
P1_NEW_CODE ==
    <<165, 181, 201, 2, 176, 42, 170, 240, 56, 165, 29, 240, 52, 165, 159, 48,
      48, 173, 67, 7, 208, 43, 165, 206, 201, 192, 144, 37, 162, 0, 142, 51, 4,
      173, 158, 7, 208, 22, 169, 244, 133, 159, 169, 112, 141, 10, 7, 96, 173,
      67, 7, 208, 13, 133, 159, 169, 1, 133, 181, 96, 134, 159, 134, 87, 234>>

\* Mutant: the tail is taken one byte late, so the image shrinks.
PitSurvivalLateTail(d) ==
    IF verify_context(d, P1_CTX, P1_EXPECTED)
    THEN LET nop_fill == Table(Repeat(NOP, P1_LEN - Len(P1_NEW_CODE))) IN
         [data |-> Splice(d, P1_CTX, P1_NEW_CODE \o nop_fill, P1_END + 1),
          applied |-> TRUE,
          checked |-> Compared(P1_CTX, P1_EXPECTED),
          wrote |-> <<P1_CTX, P1_END>>]
    ELSE Skipped(d, Compared(P1_CTX, P1_EXPECTED))

PitSurvival(d) ==
    IF verify_context(d, P1_CTX, P1_EXPECTED)
    THEN LET nop_fill == Table(Repeat(NOP, P1_LEN - Len(P1_NEW_CODE))) IN
         [data |-> Splice(d, P1_CTX, P1_NEW_CODE \o nop_fill, P1_END),
          applied |-> TRUE,
          checked |-> Compared(P1_CTX, P1_EXPECTED),
          wrote |-> <<P1_CTX, P1_END>>]
    ELSE Skipped(d, Compared(P1_CTX, P1_EXPECTED))

P2_EXPECTED == <<169, 255, 141, 57, 1, 32, 95, 143>>
P2_NEW_CODE == <<234, 234, 234>>

\* Mutant: the three NOPs go to the window's start, over LDA #$FF.
TimerFreezeAtWindow(d) ==
    IF verify_context(d, P2_CTX, P2_EXPECTED)
    THEN [data |-> Splice(d, P2_CTX, P2_NEW_CODE, P2_CTX + 3),
          applied |-> TRUE,
          checked |-> Compared(P2_CTX, P2_EXPECTED),
          wrote |-> <<P2_CTX, P2_CTX + 3>>]
    ELSE Skipped(d, Compared(P2_CTX, P2_EXPECTED))

TimerFreeze(d) ==
    IF verify_context(d, P2_CTX, P2_EXPECTED)
    THEN [data |-> Splice(d, P2_START, P2_NEW_CODE, P2_END),
          applied |-> TRUE,
          checked |-> Compared(P2_CTX, P2_EXPECTED),
          wrote |-> <<P2_START, P2_END>>]
    ELSE Skipped(d, Compared(P2_CTX, P2_EXPECTED))

P3_EXPECTED == <<169, 112, 141, 9, 7, 169, 249, 141, 219, 6>>

SpringboardBoost(d) ==
    IF verify_context(d, P3_CTX, P3_EXPECTED)
    THEN LET r == apply_patch(d, P3_OFFSET, P3_OLD, P3_NEW) IN
         IF r.ok
         THEN [data |-> r.data,
               applied |-> TRUE,
               checked |-> Compared(P3_CTX, P3_EXPECTED),
               wrote |-> <<P3_OFFSET, P3_OFFSET + 1>>]
         ELSE Skipped(r.data, Compared(P3_CTX, P3_EXPECTED))
    ELSE Skipped(d, Compared(P3_CTX, P3_EXPECTED))

P4_EXPECTED == <<165, 206, 217, 129, 192, 208, 35, 165, 29, 201, 0, 208, 29>>
P4_NEW_CODE == <<185, 129, 192, 201, 192, 176, 6, 133, 206, 169, 0, 133, 29>>

CastleMaze(d) ==
    IF verify_context(d, P4_CTX, P4_EXPECTED)
    THEN [data |-> Splice(d, P4_CTX, P4_NEW_CODE, P4_END),
          applied |-> TRUE,
          checked |-> Compared(P4_CTX, P4_EXPECTED),
          wrote |-> <<P4_CTX, P4_END>>]
    ELSE Skipped(d, Compared(P4_CTX, P4_EXPECTED))

\* The four codes main applies, in its order.
POAISA == <<"P", "O", "A", "I", "S", "A">>
\* Mutant: a code for CPU $B17A, inside the routine patch 1 replaces.
OZYUZO == <<"O", "Z", "Y", "U", "Z", "O">>
OZTLLX == <<"O", "Z", "T", "L", "L", "X">>
AATLGZ == <<"A", "A", "T", "L", "G", "Z">>
SZLIVO == <<"S", "Z", "L", "I", "V", "O">>

PatchOps == <<"patch1", "patch2", "patch3", "patch4">>
CodeOps == <<"gg1", "gg2", "gg3", "gg4">>
\* main's order of steps.
MainOrder == PatchOps \o CodeOps

CodeOf(op) ==
    CASE op = "gg1" -> POAISA
      [] op = "gg2" -> OZTLLX
      [] op = "gg3" -> AATLGZ
      [] op = "gg4" -> SZLIVO

PatchOf(op, d) ==
    CASE op = "patch1" -> PitSurvival(d)
      [] op = "patch2" -> TimerFreeze(d)
      [] op = "patch3" -> SpringboardBoost(d)
      [] op = "patch4" -> CastleMaze(d)

IsPatch(op) == \E i \in 1..Len(PatchOps) : PatchOps[i] = op
IsCode(op) == \E i \in 1..Len(CodeOps) : CodeOps[i] = op

NoOp == [op |-> "none", applied |-> FALSE, checked |-> NoRange, wrote |-> NoRange]
NoOutput == [written |-> FALSE, bytes |-> <<>>]
\* exit_code while main runs; <<n>> once the process has exited with status n.
RUNNING == <<>>

\* The position after step op of main.
After(op) ==
    CASE op = "patch1" -> "patch2"
      [] op = "patch2" -> "patch3"
      [] op = "patch3" -> "patch4"
      [] op = "patch4" -> "gg1"
      [] op = "gg1" -> "gg2"
      [] op = "gg2" -> "gg3"
      [] op = "gg3" -> "gg4"
      [] op = "gg4" -> "summary"

(***************************************************************************)
(* Input images.                                                           *)
(***************************************************************************)
Windows == <<[off |-> P1_CTX, exp |-> P1_EXPECTED],
             [off |-> P2_CTX, exp |-> P2_EXPECTED],
             [off |-> P3_CTX, exp |-> P3_EXPECTED],
             [off |-> P4_CTX, exp |-> P4_EXPECTED]>>

Fills == {0, 255}
HeaderKinds == {"ok", "short", "long", "magic", "prg", "chr"}

\* The 16-byte iNES header of an input of kind hdr.
InputHeader(hdr) ==
    <<(IF hdr = "magic" THEN 0 ELSE NES_MAGIC[1]), NES_MAGIC[2], NES_MAGIC[3],
      NES_MAGIC[4], (IF hdr = "prg" THEN 1 ELSE 2), (IF hdr = "chr" THEN 0 ELSE 1),
      0, 0, 0, 0, 0, 0, 0, 0, 0, 0>>

\* Context window k of an input: the expected bytes, except that for the
\* patches in miss one byte differs (at index pos, counted from the window's
\* end when fromEnd).
InputWindow(k, miss, pos, fromEnd) ==
    LET exp == Windows[k].exp
        at == IF fromEnd THEN Len(exp) - 1 - pos ELSE pos
    IN  [i \in 1..Len(exp) |->
            IF k \in miss /\ i - 1 = at THEN (exp[i] + 1) % 256 ELSE exp[i]]

InputSize(hdr) ==
    IF hdr = "short" THEN ROM_SIZE - 1
    ELSE IF hdr = "long" THEN ROM_SIZE + 1
    ELSE ROM_SIZE

\* The input image: the header, the four windows at their offsets (in file
\* order: patch 1, 2, 4, 3) and fill everywhere else.
RECURSIVE Join(_)
Join(pieces) == IF pieces = <<>> THEN <<>> ELSE Cat(Head(pieces), Join(Tail(pieces)))

InputImage(hdr, fill, miss, pos, fromEnd) ==
    LET W(k) == Bytes(InputWindow(k, miss, pos, fromEnd))
        End(k) == Windows[k].off + Len(Windows[k].exp)
    IN  Join(<<Bytes(InputHeader(hdr)),
               Repeat(fill, Windows[1].off - HEADER_SIZE), W(1),
               Repeat(fill, Windows[2].off - End(1)), W(2),
               Repeat(fill, Windows[4].off - End(2)), W(4),
               Repeat(fill, Windows[3].off - End(4)), W(3),
               Repeat(fill, InputSize(hdr) - End(3))>>)

(***************************************************************************)
(* main, one step at a time.                                               *)
(***************************************************************************)
NotDecoded == [called |-> FALSE, raised |-> FALSE, address |-> 0, value |-> 0]
NotConverted == [called |-> FALSE, raised |-> FALSE, value |-> 0]

IdleDecode == code = <<>> /\ decoded = NotDecoded
IdleOffset == cpu_addr = 0 /\ file_offset = NotConverted

Init ==
    /\ \E hdr \in HeaderKinds, fill \in Fills, miss \in SUBSET (1..4),
          pos \in 0..MaxFlip, fromEnd \in BOOLEAN :
          /\ hdr # "ok" => miss = {} /\ pos = 0 /\ ~fromEnd
          /\ rom = InputImage(hdr, fill, miss, pos, fromEnd)
    /\ data = rom
    /\ pc = "verify_rom"
    /\ patches_applied = 0
    /\ patches_failed = 0
    /\ output = NoOutput
    /\ exit_code = RUNNING
    /\ last_op = NoOp
    /\ done = {}
    /\ IdleDecode
    /\ IdleOffset

VerifyRom ==
    /\ pc = "verify_rom"
    /\ IF verify_rom(data)
       THEN pc' = "patch1" /\ exit_code' = exit_code
       ELSE pc' = "exit" /\ exit_code' = <<1>>
    /\ UNCHANGED <<rom, data, patches_applied, patches_failed, output, last_op, done>>
    /\ UNCHANGED <<decodeVars, offsetVars>>

\* Mutant: a skipped patch is not counted.
PatchBlockUncounted(op, d, a, f) ==
    LET r == PatchOf(op, d) IN
    [data |-> r.data,
     applied |-> IF r.applied THEN a + 1 ELSE a,
     failed |-> f,
     last |-> [op |-> op, applied |-> r.applied, checked |-> r.checked,
               wrote |-> r.wrote]]

\* One guarded patch block of main, on image d with the counters at a and f:
\* verify, apply, count.
PatchBlock(op, d, a, f) ==
    LET r == PatchOf(op, d) IN
    [data |-> r.data,
     applied |-> IF r.applied THEN a + 1 ELSE a,
     failed |-> IF r.applied THEN f ELSE f + 1,
     last |-> [op |-> op, applied |-> r.applied, checked |-> r.checked,
               wrote |-> r.wrote]]

\* One apply_game_genie call of main, for a code that decodes.
CodeWrite(op, d, a, f) ==
    LET dec == decode_game_genie(CodeOf(op))
        off == cpu_to_file(dec.address)
    IN  [data |-> apply_game_genie(d, CodeOf(op)),
         applied |-> a,
         failed |-> f,
         last |-> [op |-> op, applied |-> TRUE, checked |-> NoRange,
                   wrote |-> <<off, off + 1>>]]

\* Step op of main.
Step(op, d, a, f) ==
    IF IsPatch(op) THEN PatchBlock(op, d, a, f) ELSE CodeWrite(op, d, a, f)

\* The step's result becomes main's state.
Take(r) ==
    /\ data' = r.data
    /\ patches_applied' = r.applied
    /\ patches_failed' = r.failed
    /\ last_op' = r.last

Patch1 ==
    /\ pc = "patch1"
    /\ Take(PatchBlock("patch1", data, patches_applied, patches_failed))
    /\ pc' = After("patch1")
    /\ UNCHANGED <<rom, output, exit_code, done, decodeVars, offsetVars>>

Patch2 ==
    /\ pc = "patch2"
    /\ Take(PatchBlock("patch2", data, patches_applied, patches_failed))
    /\ pc' = After("patch2")
    /\ UNCHANGED <<rom, output, exit_code, done, decodeVars, offsetVars>>

Patch3 ==
    /\ pc = "patch3"
    /\ Take(PatchBlock("patch3", data, patches_applied, patches_failed))
    /\ pc' = After("patch3")
    /\ UNCHANGED <<rom, output, exit_code, done, decodeVars, offsetVars>>

Patch4 ==
    /\ pc = "patch4"
    /\ Take(PatchBlock("patch4", data, patches_applied, patches_failed))
    /\ pc' = After("patch4")
    /\ UNCHANGED <<rom, output, exit_code, done, decodeVars, offsetVars>>

\* The code phase: the call for the code at position pc.  A code that does
\* not decode raises ValueError out of main: exit status 1, nothing written.
GameGenie ==
    /\ IsCode(pc)
    /\ IF decode_game_genie(CodeOf(pc)).raised
       THEN /\ pc' = "exit"
            /\ exit_code' = <<1>>
            /\ UNCHANGED <<data, patches_applied, patches_failed, last_op>>
       ELSE /\ Take(CodeWrite(pc, data, patches_applied, patches_failed))
            /\ pc' = After(pc)
            /\ exit_code' = exit_code
    /\ UNCHANGED <<rom, output, done, decodeVars, offsetVars>>

Summary ==
    /\ pc = "summary"
    /\ pc' = "exit"
    /\ IF patches_applied = 0
       THEN exit_code' = <<1>> /\ output' = output
       ELSE exit_code' = <<0>> /\ output' = [written |-> TRUE, bytes |-> data]
    /\ UNCHANGED <<rom, data, patches_applied, patches_failed, last_op, done>>
    /\ UNCHANGED <<decodeVars, offsetVars>>

Next ==
    \/ VerifyRom
    \/ Patch1
    \/ Patch2
    \/ Patch3
    \/ Patch4
    \/ GameGenie
    \/ Summary

Spec == Init /\ [][Next]_vars

(***************************************************************************)
(* main's steps on a validated image, taken in any order.                  *)
(***************************************************************************)
Ops == {MainOrder[i] : i \in 1..Len(MainOrder)}

\* main's patch and code phases, run in main's order from step i on.
RECURSIVE RunFrom(_, _, _, _)
RunFrom(i, d, a, f) ==
    IF i > Len(MainOrder) THEN [data |-> d, applied |-> a, failed |-> f]
    ELSE LET r == Step(MainOrder[i], d, a, f) IN
         RunFrom(i + 1, r.data, r.applied, r.failed)

RunMain(d) == RunFrom(1, d, 0, 0)

InitAnyOrder ==
    /\ \E miss \in SUBSET (1..4) : rom = InputImage("ok", 255, miss, 0, FALSE)
    /\ data = rom
    /\ pc = "reorder"
    /\ patches_applied = 0
    /\ patches_failed = 0
    /\ output = NoOutput
    /\ exit_code = RUNNING
    /\ last_op = NoOp
    /\ done = {}
    /\ IdleDecode
    /\ IdleOffset

Reorder(op) ==
    /\ pc = "reorder"
    /\ op \notin done
    /\ LET r == Step(op, data, patches_applied, patches_failed) IN
       /\ data' = r.data
       /\ patches_applied' = r.applied
       /\ patches_failed' = r.failed
    /\ done' = done \cup {op}
    /\ pc' = IF done' = Ops THEN "summary" ELSE "reorder"
    /\ UNCHANGED <<rom, output, exit_code, last_op, decodeVars, offsetVars>>

NextAnyOrder ==
    \/ \E op \in Ops : Reorder(op)
    \/ Summary

SpecAnyOrder == InitAnyOrder /\ [][NextAnyOrder]_vars

(***************************************************************************)
(* decode_game_genie on its own.                                           *)
(***************************************************************************)
\* Indexes n3, n4, n5 of the six-letter codes tried with every n0, n1, n2.
HighNibbles == {0, 15}

\* Characters of the other codes tried: two letters of the alphabet, one of
\* them in lower case, a letter outside it, and one whose upper case is two
\* letters of the alphabet.
Chars == {"A", "p", "B", SHARP_S}

Letter(i) == GG_LETTERS[i + 1]

CodeInputs ==
    {<<Letter(a), Letter(b), Letter(c), Letter(d), Letter(e), Letter(f)>> :
        a \in 0..15, b \in 0..15, c \in 0..15,
        d \in HighNibbles, e \in HighNibbles, f \in HighNibbles}
    \cup UNION {[1..k -> Chars] : k \in 0..MaxCodeLen}
    \cup {POAISA, OZTLLX, AATLGZ, SZLIVO}

InitDecode ==
    /\ code \in CodeInputs
    /\ decoded = NotDecoded
    /\ rom = <<>>
    /\ data = <<>>
    /\ pc = "idle"
    /\ patches_applied = 0
    /\ patches_failed = 0
    /\ output = NoOutput
    /\ exit_code = RUNNING
    /\ last_op = NoOp
    /\ done = {}
    /\ IdleOffset

DecodeGameGenie ==
    /\ ~decoded.called
    /\ LET r == decode_game_genie(code) IN
       decoded' = [called |-> TRUE, raised |-> r.raised, address |-> r.address,
                   value |-> r.value]
    /\ UNCHANGED <<code, mainVars, offsetVars>>

NextDecode == DecodeGameGenie

SpecDecode == InitDecode /\ [][NextDecode]_vars

(***************************************************************************)
(* cpu_to_file on its own.                                                 *)
(***************************************************************************)
InitOffset ==
    /\ cpu_addr \in (PRG_BASE - AddrMargin)..(PRG_TOP + AddrMargin)
    /\ file_offset = NotConverted
    /\ rom = <<>>
    /\ data = <<>>
    /\ pc = "idle"
    /\ patches_applied = 0
    /\ patches_failed = 0
    /\ output = NoOutput
    /\ exit_code = RUNNING
    /\ last_op = NoOp
    /\ done = {}
    /\ IdleDecode

\* cpu_to_file has no failing path: it returns for every argument.
CpuToFile ==
    /\ ~file_offset.called
    /\ file_offset' = [called |-> TRUE, raised |-> FALSE, value |-> cpu_to_file(cpu_addr)]
    /\ UNCHANGED <<cpu_addr, mainVars, decodeVars>>

NextOffset == CpuToFile

SpecOffset == InitOffset /\ [][NextOffset]_vars

(***************************************************************************)
(* Properties.                                                             *)
(***************************************************************************)
\* Context window k holds its expected bytes in image d, byte by byte.
WindowHolds(d, k) ==
    \A i \in 1..Len(Windows[k].exp) :
        ByteAt(d, Windows[k].off + i - 1) = Windows[k].exp[i]

\* The bytes patch k puts into the image, and where.
Edits == <<[at |-> 12681, bytes |-> P1_NEW_CODE],
           [at |-> 14239, bytes |-> <<234, 234, 234>>],
           [at |-> 24287, bytes |-> <<244>>],
           [at |-> 16635, bytes |-> P4_NEW_CODE]>>

EditMade(d, k) ==
    \A i \in 1..Len(Edits[k].bytes) : ByteAt(d, Edits[k].at + i - 1) = Edits[k].bytes[i]

\* main is past verify_rom and has not stopped.
InPhases == IsPatch(pc) \/ IsCode(pc) \/ pc = "summary"

\* The input is a 40976-byte iNES image with 2 PRG banks and 1 CHR bank.
ValidImage(d) ==
    /\ Size(d) = 40976
    /\ ByteAt(d, 0) = 78 /\ ByteAt(d, 1) = 69 /\ ByteAt(d, 2) = 83 /\ ByteAt(d, 3) = 26
    /\ ByteAt(d, 4) = 2
    /\ ByteAt(d, 5) = 1

\* C1: the working image keeps the input's length through every patch and
\* every code write; for a validated input that length is 40976, and so is
\* the written output's.
C1_LengthPreserved ==
    /\ Size(data) = Size(rom)
    /\ InPhases => Size(data) = 40976
    /\ output.written => Size(output.bytes) = 40976

C1_Witness == pc = "summary" /\ patches_applied = 4 /\ last_op.op = "gg4"

\* One patch step of main.
C2_Step ==
    \A k \in 1..4 :
        pc = PatchOps[k] =>
            /\ \/ patches_applied' = patches_applied + 1 /\ patches_failed' = patches_failed
               \/ patches_applied' = patches_applied /\ patches_failed' = patches_failed + 1
            /\ patches_applied' = patches_applied + 1 <=> WindowHolds(data, k)
            /\ WindowHolds(data, k) => EditMade(data', k)
            /\ ~WindowHolds(data, k) => data' = data
            /\ pc' = After(PatchOps[k])

\* The counters once the last patch step is over.
C2_Totals ==
    (IsCode(pc) \/ pc = "summary") =>
        /\ patches_applied + patches_failed = 4
        /\ (\A k \in 1..4 : WindowHolds(rom, k)) =>
               patches_applied = 4 /\ patches_failed = 0
        /\ Cardinality({k \in 1..4 : ~WindowHolds(rom, k)}) = 1 =>
               patches_applied = 3 /\ patches_failed = 1

\* C2: each patch step increments exactly one of the two counters by one,
\* patches_applied exactly when the patch's window holds the expected bytes
\* in the current image; an applied patch's edit is in the image, a skipped
\* patch leaves the image identical, and the run goes on to the next step.
\* After the last patch the counters sum to 4: 4/0 when every window of the
\* input matched, 3/1 when exactly one did not.
C2_Counting == [][C2_Step]_vars /\ []C2_Totals

C2_Witness == pc = "gg1" /\ patches_applied = 3 /\ patches_failed = 1

\* C3: whenever a guarded patch is applied, the whole range it overwrites
\* lies inside the range verify_context compared just before.
C3_WriteWithinVerified ==
    (IsPatch(last_op.op) /\ last_op.applied) =>
        /\ last_op.checked[1] <= last_op.wrote[1]
        /\ last_op.wrote[2] <= last_op.checked[2]

\* One applied patch step of main.
C3_Step ==
    \A k \in 1..4 :
        (pc = PatchOps[k] /\ patches_applied' = patches_applied + 1) =>
            /\ WindowHolds(data, k)
            /\ last_op'.op = PatchOps[k] /\ last_op'.applied
            /\ last_op'.checked = <<Windows[k].off, Windows[k].off + Len(Windows[k].exp)>>
            /\ \/ /\ k # 1
                  /\ last_op'.checked[1] <= last_op'.wrote[1]
                  /\ last_op'.wrote[2] <= last_op'.checked[2]
               \/ /\ k = 1
                  /\ last_op'.wrote = <<12681, 12746>>
                  /\ last_op'.checked = <<12681, 12689>>
            /\ Prefix(data', last_op'.wrote[1]) = Prefix(data, last_op'.wrote[1])
            /\ Drop(data', last_op'.wrote[2]) = Drop(data, last_op'.wrote[2])

\* C3, amended: whenever a guarded patch is applied, verify_context compared
\* the patch's context window with the current image just before the write
\* and found it equal; patches 2, 3 and 4 overwrite only bytes of that
\* window; patch 1 overwrites [0x3189, 0x31CA), of which only the first 8
\* bytes, [0x3189, 0x3191), were compared.
C3_WindowVerified == [][C3_Step]_vars

\* Patch 1 applied over a byte (offset 0x3191) that was never compared.
C3_Witness ==
    /\ last_op.op = "patch1" /\ last_op.applied
    /\ ByteAt(rom, 12689) = 255
    /\ ByteAt(data, 12689) = 56

\* C4: the run writes the output and exits 0 exactly when the input is a
\* valid image and patches_applied > 0 after the patches; an invalid input
\* ends the run with status 1 before any patch or code is tried, and
\* patches_applied = 0 ends it with status 1 and no output.
C4_ExitStatus ==
    /\ pc # "exit" => exit_code = <<>> /\ ~output.written
    /\ pc = "exit" =>
        /\ exit_code \in {<<0>>, <<1>>}
        /\ (output.written /\ exit_code = <<0>>) <=> (ValidImage(rom) /\ patches_applied > 0)
        /\ output.written <=> exit_code = <<0>>
        /\ output.written => output.bytes = data
        /\ ~ValidImage(rom) =>
               /\ data = rom
               /\ patches_applied = 0 /\ patches_failed = 0
               /\ last_op = NoOp
        /\ patches_applied = 0 => ~output.written /\ exit_code = <<1>>

C4_Witness == pc = "exit" /\ exit_code = <<0>> /\ output.written /\ patches_failed > 0

\* The region replacements: patch 1, 65 bytes at 0x3189; patch 2, 3 bytes at
\* 0x379F; patch 4, 13 bytes at 0x40FB.
Regions == [k \in {1, 2, 4} |->
    CASE k = 1 -> [off |-> 12681, len |-> 65, newCode |-> P1_NEW_CODE]
      [] k = 2 -> [off |-> 14239, len |-> 3, newCode |-> <<>>]
      [] k = 4 -> [off |-> 16635, len |-> 13, newCode |-> P4_NEW_CODE]]

\* One applied region replacement.
C5_Step ==
    \A k \in {1, 2, 4} :
        (pc = PatchOps[k] /\ patches_applied' = patches_applied + 1) =>
            LET g == Regions[k] IN
            /\ Size(data') = Size(data)
            /\ Prefix(data', g.off) = Prefix(data, g.off)
            /\ Drop(data', g.off + g.len) = Drop(data, g.off + g.len)
            /\ Prefix(Drop(data', g.off), g.len)
                   = Bytes(g.newCode \o [i \in 1..(g.len - Len(g.newCode)) |-> 234])

\* C5: an applied region replacement keeps the image's length, leaves every
\* byte outside the region as it was, and leaves in the region the
\* replacement code followed by 0xEA up to the region's length.
C5_RegionReplace == [][C5_Step]_vars

C5_Witness == last_op.op = "patch4" /\ last_op.applied /\ patches_applied = 4

\* The four decoded values are in the image once the code phase is over.
C6_CodesWritten ==
    (pc = "summary" \/ (pc = "exit" /\ last_op.op = "gg4")) =>
        \A c \in {POAISA, OZTLLX, AATLGZ, SZLIVO} :
            LET dec == decode_game_genie(c) IN
            ByteAt(data, dec.address - 32768 + 16) = dec.value

\* A code write leaves both counters alone.
C6_Step ==
    IsCode(pc) =>
        patches_applied' = patches_applied /\ patches_failed' = patches_failed

\* C6: after the code phase, whatever the patches did and whatever the bytes
\* were, the byte at address - 0x8000 + 0x10 of each of the four codes is
\* the code's decoded value; a code write changes neither counter.
C6_Codes == []C6_CodesWritten /\ [][C6_Step]_vars

\* All four patches skipped, and POAISA's value 0x11 at file offset 0x5895.
C6_Witness ==
    /\ pc = "summary"
    /\ patches_applied = 0 /\ patches_failed = 4
    /\ ByteAt(data, 22677) = 17
    /\ ByteAt(rom, 22677) = 255

Alphabet == {GG_LETTERS[i] : i \in 1..Len(GG_LETTERS)}

\* C7 as claimed: decode_game_genie fails exactly for the codes that, as
\* supplied, are not 6 characters long or hold a character outside the
\* alphabet.
C7_RejectsAsSupplied ==
    decoded.called =>
        (decoded.raised <=>
            (Len(code) # 6 \/ \E i \in 1..Len(code) : code[i] \notin Alphabet))

\* C7, amended: decode_game_genie fails exactly for the codes whose
\* upper-cased form (str.upper) is not 6 characters long or holds a
\* character outside the alphabet.
C7_RejectsUpperCased ==
    decoded.called =>
        (decoded.raised <=>
            (Len(upper(code)) # 6
             \/ \E i \in 1..Len(upper(code)) : upper(code)[i] \notin Alphabet))

\* A code in lower case decodes, to what its upper case decodes to.
C7_Witness ==
    /\ decoded.called /\ ~decoded.raised
    /\ code = <<"p", "p", "p", "p", "p", "p">>
    /\ decoded.address = 37137 /\ decoded.value = 17

\* The code is six letters of the alphabet, as supplied.
SixLetters == Len(code) = 6 /\ \A i \in 1..6 : code[i] \in Alphabet

\* Index n_i of a six-letter code, i in 0..5.
Nibble(i) == (CHOOSE j \in 1..16 : GG_LETTERS[j] = code[i + 1]) - 1

HighZero == SixLetters /\ Nibble(3) = 0 /\ Nibble(4) = 0 /\ Nibble(5) = 0

\* C8 as claimed: a valid code with n3 = n4 = n5 = 0 decodes to 0x8000.
C8_BaseAddress ==
    (decoded.called /\ HighZero) => (~decoded.raised /\ decoded.address = 32768)

\* C8, amended: a valid code with n3 = n4 = n5 = 0 decodes to the address
\* 0x8000 | ((n2 & 7) << 4) | ((n1 & 8) << 4), which is 0x8000 exactly when
\* n2 & 7 = 0 and n1 & 8 = 0 (for every n0).
C8_LowAddress ==
    (decoded.called /\ HighZero) =>
        /\ ~decoded.raised
        /\ decoded.address = 32768 + 16 * (Nibble(2) % 8) + 128 * (Nibble(1) \div 8)
        /\ decoded.address = 32768 <=> (Nibble(2) % 8 = 0 /\ Nibble(1) < 8)

\* "AEYAAA": n1 = 8, n2 = 7, n3 = n4 = n5 = 0 decodes to 0x80F0.
C8_Witness ==
    /\ decoded.called /\ HighZero
    /\ Nibble(1) = 8 /\ Nibble(2) = 7
    /\ decoded.address = 33008

\* C9: cpu_to_file gives address - 0x8000 + 0x10 for the addresses in
\* [0x8000, 0xFFFF] and fails for every other address.
C9_RangeChecked ==
    file_offset.called =>
        IF cpu_addr \in 32768..65535
        THEN ~file_offset.raised /\ file_offset.value = cpu_addr - 32768 + 16
        ELSE file_offset.raised

\* The range each step of main writes, and the window each patch compares.
WriteRange(op) ==
    CASE op = "patch1" -> <<12681, 12746>>
      [] op = "patch2" -> <<14239, 14242>>
      [] op = "patch3" -> <<24287, 24288>>
      [] op = "patch4" -> <<16635, 16648>>
      [] OTHER -> LET a == decode_game_genie(CodeOf(op)).address - 32768 + 16
                  IN  <<a, a + 1>>

ContextRange(op) ==
    LET k == CHOOSE k \in 1..4 : PatchOps[k] = op
    IN  <<Windows[k].off, Windows[k].off + Len(Windows[k].exp)>>

Disjoint(r, s) == r[2] <= s[1] \/ s[2] <= r[1]

\* Every step taken so far wrote clear of every other step's range and of
\* every other patch's context window.
C10_Layout ==
    \A o1 \in done, o2 \in Ops :
        o1 # o2 =>
            /\ Disjoint(WriteRange(o1), WriteRange(o2))
            /\ IsPatch(o2) => Disjoint(WriteRange(o1), ContextRange(o2))

\* A patch tried at any point is applied exactly when its window holds in
\* the input image.
C10_Step ==
    \A k \in 1..4 :
        (PatchOps[k] \notin done /\ PatchOps[k] \in done') =>
            (patches_applied' = patches_applied + 1 <=> WindowHolds(rom, k))

\* All eight steps taken: the image and counters of main's own order.
C10_Final ==
    done = Ops =>
        /\ data = RunMain(rom).data
        /\ patches_applied = RunMain(rom).applied
        /\ patches_failed = RunMain(rom).failed

\* C10: the ranges the eight steps write are pairwise disjoint and none
\* meets another patch's context window; whenever a patch is tried, in any
\* order, it is applied exactly when its window holds in the input image;
\* and once all eight steps are taken, the image and both counters are those
\* of main's own order.
C10_OrderIndependent == [](C10_Layout /\ C10_Final) /\ [][C10_Step]_vars

C10_Witness == done = Ops /\ patches_applied = 2 /\ patches_failed = 2 /\ data # rom

====
